---- MODULE Spec2Model ----
(***************************************************************************)
(* Model of src/main.py: the PDF text-extraction service.                  *)
(*                                                                         *)
(* A behaviour follows one request from its arrival to its response        *)
(* (requests share no mutable state: every accumulator is a local of its   *)
(* handler).  The request starts with one of the handler actions, then,    *)
(* on an OCR path, submits one page per step to the provider (whose        *)
(* answer is the environment's choice), then returns.                      *)
(*                                                                         *)
(* Strings are sequences of tokens.  Text-layer text and provider text are *)
(* sequences of one-character strings; the fixed pieces of a page label    *)
(* and of an error detail are single tokens.                               *)
(***************************************************************************)
EXTENDS Integers, Sequences, FiniteSets, TLC

VARIABLES
    endpoint,          \* the route being served
    file,              \* the submitted upload / downloaded file
    pc,                \* "idle" | "ocr" (inside the per-page loop) | "done"
    path,              \* branch of the strategy: "none" | "text" | "ocr"
    pymupdf_text,      \* extract_text_with_fallback: list of stripped page texts
    page_images,       \* result of pdf_to_images: image i is the raster of page page_images[i]
    idx,               \* enumerate(page_images, 1): the next page_num
    all_text,          \* list of text blocks (all_text / all_text_blocks)
    pages_data,        \* extract_text_json: per-page metadata
    detailed_results,  \* extract_text_detailed: per-page structure
    calls,             \* log of detect_document_text calls: image submitted and provider outcome
    response           \* the HTTP response of the finished request

vars == <<endpoint, file, pc, path, pymupdf_text, page_images, idx, all_text,
          pages_data, detailed_results, calls, response>>

----------------------------------------------------------------------------
(* Bounds *)

MaxPages == 2

(* Program constants *)

Threshold == 100

----------------------------------------------------------------------------
(* Strings *)

Rep(c, n) == [i \in 1..n |-> c]

IsSpace(c) == c \in {" ", "\n", "\t"}

\* str.strip(): drop leading and trailing whitespace
Strip(s) ==
    IF \A i \in 1..Len(s) : IsSpace(s[i]) THEN <<>>
    ELSE LET first == CHOOSE i \in 1..Len(s) :
                         ~IsSpace(s[i]) /\ \A j \in 1..(i - 1) : IsSpace(s[j])
             last  == CHOOSE i \in 1..Len(s) :
                         ~IsSpace(s[i]) /\ \A j \in (i + 1)..Len(s) : IsSpace(s[j])
         IN  SubSeq(s, first, last)

RECURSIVE Join(_, _)
\* sep.join(parts)
Join(sep, parts) ==
    IF parts = <<>> THEN <<>>
    ELSE IF Len(parts) = 1 THEN parts[1]
    ELSE parts[1] \o sep \o Join(sep, Tail(parts))

Digit == <<"1", "2", "3", "4", "5", "6", "7", "8", "9">>

RECURSIVE Decimal(_)
\* str(n) of the f-string "{page_num}"
Decimal(n) ==
    IF n < 10 THEN <<(IF n = 0 THEN "0" ELSE Digit[n])>>
    ELSE Decimal(n \div 10) \o <<(IF n % 10 = 0 THEN "0" ELSE Digit[n % 10])>>

\* the three label formats of the plain-text handlers
Label(page_num, source) ==
    <<"--- Page ">> \o Decimal(page_num) \o
    <<(CASE source = "Text Layer" -> " (Text Layer) ---"
         [] source = "OCR"        -> " (OCR) ---"
         [] OTHER                 -> " ---")>>

\* f"--- Page {page_num} ... ---\n{text}"
Block(page_num, source, text) == Label(page_num, source) \o <<"\n">> \o text

----------------------------------------------------------------------------
(* Inputs: uploads and provider behaviour *)

\* embedded text layers a page may carry (page.get_text())
PageTexts ==
    { <<>>,                                  \* no text layer
      <<" ", "\n">>,                         \* whitespace only
      <<" ">> \o Rep("a", 50),               \* short text
      Rep("a", Threshold) \o <<"\n">>,       \* Threshold characters and a line end
      Rep("a", Threshold + 1),               \* just over the threshold
      Rep("a", 150) }                        \* substantial text

Documents == UNION { [1..n -> PageTexts] : n \in 1..MaxPages }

\* scanned documents: no page has a text layer
ScannedDocuments == UNION { [1..n -> {<<>>}] : n \in 1..MaxPages }

Upload(is_pdf, openable, pages) ==
    [is_pdf |-> is_pdf, openable |-> openable, pages |-> pages]

\* uploads to a handler that reads the text layer
Uploads ==
    { Upload(TRUE, TRUE, d) : d \in Documents }
    \cup { Upload(FALSE, TRUE, <<<<>>>>), Upload(TRUE, FALSE, <<<<>>>>) }

\* uploads to a handler that never reads the text layer
ScannedUploads ==
    { Upload(TRUE, TRUE, d) : d \in ScannedDocuments }
    \cup { Upload(FALSE, TRUE, <<<<>>>>), Upload(TRUE, FALSE, <<<<>>>>) }

NoFile == Upload(FALSE, FALSE, <<>>)

Line(text, confidence) ==
    [BlockType |-> "LINE", Text |-> text, Confidence |-> confidence, Geometry |-> "g"]
Word(text, confidence) ==
    [BlockType |-> "WORD", Text |-> text, Confidence |-> confidence, Geometry |-> "g"]
\* a block of another kind (Textract's PAGE block)
Page == [BlockType |-> "PAGE", Text |-> <<"p">>, Confidence |-> 0, Geometry |-> "g"]

\* response['Blocks'] of a successful detect_document_text call
ProviderBlocks ==
    { <<>>,
      <<Page, Line(<<"a">>, 90), Word(<<"a">>, 95)>>,
      <<Page, Line(<<"a", " ", "b">>, 80), Word(<<"a">>, 99), Word(<<"b">>, 60),
        Line(<<"b">>, 40), Word(<<"b">>, 40)>>,
      <<Page, Line(<<" ">>, 10)>>,
      <<Page, Word(<<"a">>, 50)>>,
      <<Line(<<" ">>, 20), Line(<<"a">>, 70), Line(<<" ">>, 30)>> }

ErrorCodes ==
    { "UnrecognizedClientException", "AccessDeniedException",
      "InvalidParameterException", "UnsupportedDocumentException",
      "ThrottlingException" }

\* what one detect_document_text call does: returns Blocks, raises a
\* ClientError with an error code, or raises another exception
ProviderOutcomes ==
    { [kind |-> "ok", Blocks |-> b, code |-> "", msg |-> ""] : b \in ProviderBlocks }
    \cup { [kind |-> "ClientError", Blocks |-> <<>>, code |-> c, msg |-> ""] : c \in ErrorCodes }
    \cup { [kind |-> "Exception", Blocks |-> <<>>, code |-> "", msg |-> "EndpointConnectionError"] }

----------------------------------------------------------------------------
(* Exceptions and results *)

HTTPException(status_code, detail) ==
    [type |-> "HTTPException", status_code |-> status_code, detail |-> detail]

\* any exception that is not an HTTPException; detail is str(e)
OtherException(msg) ==
    [type |-> "Exception", status_code |-> 0, detail |-> <<msg>>]

Returned(v) == [raised |-> FALSE, value |-> v, exc |-> OtherException("")]
Raised(e) == [raised |-> TRUE, value |-> <<>>, exc |-> e]

\* variant: the generic wrapper catches HTTPException too
HandlerExcept_WrapsAll(exc, prefix) ==
    HTTPException(500, <<prefix>> \o exc.detail)

\* the handlers' "except HTTPException: raise / except Exception as e: raise HTTPException(500, ...)"
HandlerExcept(exc, prefix) ==
    IF exc.type = "HTTPException" THEN exc
    ELSE HTTPException(500, <<prefix>> \o exc.detail)

\* FastAPI's answer to a raised HTTPException
ErrorResponse(exc) ==
    [status |-> exc.status_code, body |-> [detail |-> exc.detail]]

----------------------------------------------------------------------------
(* pdf_to_images and the OCR gateway *)

\* variant: the page range stops one page early
pdf_to_images_SkipsLast(pdf_document) == [i \in 1..(Len(pdf_document) - 1) |-> i]

\* one raster per page, in page order; an image is named by the page it shows
pdf_to_images(pdf_document) == [i \in 1..Len(pdf_document) |-> i]

SelectType(Blocks, type) == SelectSeq(Blocks, LAMBDA b : b.BlockType = type)

Texts(blocks) == [i \in 1..Len(blocks) |-> blocks[i].Text]

Fragments(blocks) ==
    [i \in 1..Len(blocks) |->
        [text |-> blocks[i].Text, confidence |-> blocks[i].Confidence,
         geometry |-> blocks[i].Geometry]]

textract_extract_text(outcome) ==
    CASE outcome.kind = "ok" ->
            Returned(Join(<<"\n">>, Texts(SelectType(outcome.Blocks, "LINE"))))
      [] outcome.kind = "ClientError" ->
            Raised(
              CASE outcome.code = "UnrecognizedClientException" ->
                      HTTPException(401, <<"Invalid AWS credentials. Please check your access key and secret key.">>)
                [] outcome.code = "AccessDeniedException" ->
                      HTTPException(403, <<"AWS credentials don't have permission to access Textract.">>)
                [] outcome.code = "InvalidParameterException" ->
                      HTTPException(400, <<"Invalid parameters sent to Textract.">>)
                [] OTHER ->
                      HTTPException(500, <<"AWS Textract error: ", outcome.code>>))
      [] OTHER ->
            Raised(HTTPException(500, <<"Text extraction failed: ", outcome.msg>>))

\* variant: WORD fragments are collected as lines too
PageResult_WordsAsLines(Blocks) ==
    LET lines == Fragments(SelectSeq(Blocks, LAMBDA b : b.BlockType \in {"LINE", "WORD"}))
        words == Fragments(SelectType(Blocks, "WORD"))
    IN  [raw_text |-> Join(<<"\n">>, [i \in 1..Len(lines) |-> lines[i].text]),
         lines |-> lines,
         words |-> words]

\* the PageResult built from the provider's Blocks
PageResult(Blocks) ==
    LET lines == Fragments(SelectType(Blocks, "LINE"))
        words == Fragments(SelectType(Blocks, "WORD"))
    IN  [raw_text |-> Join(<<"\n">>, [i \in 1..Len(lines) |-> lines[i].text]),
         lines |-> lines,
         words |-> words]

textract_extract_text_with_structure(outcome) ==
    CASE outcome.kind = "ok" ->
            Returned(PageResult(outcome.Blocks))
      [] outcome.kind = "ClientError" ->
            Raised(
              CASE outcome.code = "UnrecognizedClientException" ->
                      HTTPException(401, <<"Invalid AWS credentials.">>)
                [] outcome.code = "AccessDeniedException" ->
                      HTTPException(403, <<"Insufficient AWS permissions for Textract.">>)
                [] OTHER ->
                      HTTPException(500, <<"AWS Textract error: ", outcome.code>>))
      [] OTHER ->
            Raised(HTTPException(500, <<"Text extraction failed: ", outcome.msg>>))

----------------------------------------------------------------------------
(* Helpers of the handlers *)

\* variant: blank text is kept
NonBlank_Always(text) == TRUE

\* "if text.strip():"
NonBlank(text) == Strip(text) # <<>>

\* lines 166-170: the stripped text of every page whose text layer is not blank
RECURSIVE ProbeTextLayer(_)
ProbeTextLayer(pages) ==
    IF pages = <<>> THEN <<>>
    ELSE (IF NonBlank(Head(pages)) THEN <<Strip(Head(pages))>> ELSE <<>>)
         \o ProbeTextLayer(Tail(pages))

\* variant: ">=" for ">"
IsTextBased_AtLeast(texts) ==
    /\ texts # <<>>
    /\ \E i \in 1..Len(texts) : Len(texts[i]) >= Threshold

\* line 173: "if pymupdf_text and any(len(text) > 100 for text in pymupdf_text)"
IsTextBased(texts) ==
    /\ texts # <<>>
    /\ \E i \in 1..Len(texts) : Len(texts[i]) > Threshold

\* lines 175-176: one block per entry of pymupdf_text, numbered by enumerate(.., 1)
TextLayerBlocks(texts) ==
    [i \in 1..Len(texts) |-> Block(i, "Text Layer", texts[i])]

\* a / b of Python floats: a ratio, or ZeroDivisionError when b = 0 (den = 0)
Quotient(a, b) == [num |-> a, den |-> b]
Zero == Quotient(0, 1)

RECURSIVE SumConfidence(_)
SumConfidence(lines) ==
    IF lines = <<>> THEN 0 ELSE Head(lines).confidence + SumConfidence(Tail(lines))

\* variant: no guard for the empty list
AverageConfidence_Unguarded(lines) ==
    Quotient(SumConfidence(lines), Len(lines))

\* line 243: "sum(...) / len(lines) if lines else 0"
AverageConfidence(lines) ==
    IF lines # <<>> THEN Quotient(SumConfidence(lines), Len(lines)) ELSE Zero

\* lines 238-244: the pages_data entry of a page
PageEntry(page_num, page_result) ==
    [page_number |-> page_num,
     text |-> Strip(page_result.raw_text),
     lines_count |-> Len(page_result.lines),
     words_count |-> Len(page_result.words),
     average_confidence |-> AverageConfidence(page_result.lines)]

\* variant: only InvalidParameterException counts as a sign of connectivity
HealthStatus_ParameterOnly(outcome) ==
    CASE outcome.kind = "ok" ->
            [status |-> "healthy", message |-> <<"AWS Textract connection successful">>]
      [] outcome.kind = "ClientError" /\ outcome.code = "InvalidParameterException" ->
            [status |-> "healthy",
             message |-> <<"AWS Textract connection working (expected parameter error with test data)">>]
      [] OTHER ->
            [status |-> "error", message |-> <<"Textract connection issue: ", outcome.code>>]

\* status reported by /health-textract/ for one provider outcome
HealthStatus(outcome) ==
    CASE outcome.kind = "ok" ->
            [status |-> "healthy", message |-> <<"AWS Textract connection successful">>]
      [] outcome.kind = "ClientError" ->
            (CASE outcome.code = "UnrecognizedClientException" ->
                     [status |-> "error", message |-> <<"Invalid AWS credentials">>]
               [] outcome.code = "AccessDeniedException" ->
                     [status |-> "error", message |-> <<"AWS credentials lack Textract permissions">>]
               [] outcome.code \in {"InvalidParameterException", "UnsupportedDocumentException"} ->
                     [status |-> "healthy",
                      message |-> <<"AWS Textract connection working (expected parameter error with test data)">>]
               [] OTHER ->
                     [status |-> "error", message |-> <<"Textract connection issue: ", outcome.code>>])
      [] OTHER ->
            [status |-> "error", message |-> <<"Connection error: ", outcome.msg>>]

----------------------------------------------------------------------------
(* State machine *)

NoResponse == [status |-> 0, body |-> [detail |-> <<>>]]

Init ==
    /\ endpoint = "none"
    /\ file = NoFile
    /\ pc = "idle"
    /\ path = "none"
    /\ pymupdf_text = <<>>
    /\ page_images = <<>>
    /\ idx = 1
    /\ all_text = <<>>
    /\ pages_data = <<>>
    /\ detailed_results = <<>>
    /\ calls = <<>>
    /\ response = NoResponse

\* a handler is entered with fresh locals
Fresh(ep, f) ==
    /\ pc = "idle"
    /\ endpoint' = ep
    /\ file' = f
    /\ pymupdf_text' = <<>>
    /\ all_text' = <<>>
    /\ pages_data' = <<>>
    /\ detailed_results' = <<>>
    /\ calls' = <<>>
    /\ idx' = 1

\* the request ends with an exception before any page is processed
Fail(exc) ==
    /\ response' = ErrorResponse(exc)
    /\ pc' = "done"
    /\ path' = "none"
    /\ page_images' = <<>>

\* pdf_to_images(doc), then the per-page loop
EnterOcrLoop(pages) ==
    /\ page_images' = pdf_to_images(pages)
    /\ path' = "ocr"
    /\ pc' = "ocr"
    /\ response' = NoResponse

\* the upload checks shared by the handlers that take a file: the extension
\* check outside the try, fitz.open inside it
Rejected(f, prefix) ==
    IF ~f.is_pdf
    THEN Fail(HTTPException(400, <<"Only PDF files are supported.">>))
    ELSE Fail(HandlerExcept(OtherException("cannot open broken document"), prefix))

\* always-OCR handlers: /extract-text/, /extract-text-json/, /extract-text-detailed/
AlwaysOcr(ep, prefix) ==
    \E f \in ScannedUploads :
        /\ Fresh(ep, f)
        /\ IF f.is_pdf /\ f.openable THEN EnterOcrLoop(f.pages) ELSE Rejected(f, prefix)

extract_text == AlwaysOcr("extract_text", "Failed to extract text: ")

extract_text_json == AlwaysOcr("extract_text_json", "Failed to extract text: ")

extract_text_detailed == AlwaysOcr("extract_text_detailed", "Failed to extract detailed text: ")

\* /extract-text-from-drive/: no extension check; the download or fitz.open may fail
extract_text_from_drive ==
    \E f \in {u \in ScannedUploads : u.is_pdf} :
        /\ Fresh("extract_text_from_drive", f)
        /\ IF f.openable THEN EnterOcrLoop(f.pages)
           ELSE Fail(HandlerExcept(OtherException("cannot open broken document"),
                                   "Failed to download or extract text: "))

\* variant: the pages are rasterized before the path is chosen
UseTextLayer_Rasterizes(texts) ==
    /\ path' = "text"
    /\ page_images' = pdf_to_images(file'.pages)
    /\ pc' = "done"
    /\ response' = [status |-> 200, body |-> Join(<<"\n", "\n">>, TextLayerBlocks(texts))]

\* lines 174-176 and 185-186: the text-layer branch, which returns at once
UseTextLayer(texts) ==
    /\ path' = "text"
    /\ page_images' = <<>>
    /\ pc' = "done"
    /\ response' = [status |-> 200, body |-> Join(<<"\n", "\n">>, TextLayerBlocks(texts))]

\* /extract-text-with-fallback/ up to the choice of the path
extract_text_with_fallback ==
    \E f \in Uploads :
        /\ pc = "idle"
        /\ endpoint' = "extract_text_with_fallback"
        /\ file' = f
        /\ pages_data' = <<>>
        /\ detailed_results' = <<>>
        /\ calls' = <<>>
        /\ idx' = 1
        /\ IF f.is_pdf /\ f.openable
           THEN LET texts == ProbeTextLayer(f.pages)
                IN  /\ pymupdf_text' = texts
                    /\ IF IsTextBased(texts)
                       THEN /\ all_text' = TextLayerBlocks(texts)
                            /\ UseTextLayer(texts)
                       ELSE /\ all_text' = <<>>
                            /\ EnterOcrLoop(f.pages)
           ELSE /\ pymupdf_text' = <<>>
                /\ all_text' = <<>>
                /\ Rejected(f, "Failed to extract text: ")

PlainEndpoints == {"extract_text", "extract_text_with_fallback", "extract_text_from_drive"}

SourceOf(ep) == IF ep = "extract_text_with_fallback" THEN "OCR" ELSE ""

PrefixOf(ep) ==
    CASE ep = "extract_text_from_drive" -> "Failed to download or extract text: "
      [] ep = "extract_text_detailed"   -> "Failed to extract detailed text: "
      [] OTHER                          -> "Failed to extract text: "

\* an exception inside the loop ends the request
Abort(exc) ==
    /\ response' = ErrorResponse(HandlerExcept(exc, PrefixOf(endpoint)))
    /\ pc' = "done"
    /\ UNCHANGED <<idx, all_text, pages_data, detailed_results>>

\* one iteration of "for page_num, page_img_bytes in enumerate(page_images, 1)"
\* of the plain-text handlers
PlainPage ==
    /\ pc = "ocr"
    /\ endpoint \in PlainEndpoints
    /\ idx <= Len(page_images)
    /\ \E outcome \in ProviderOutcomes :
          LET r == textract_extract_text(outcome)
          IN  /\ calls' = Append(calls, [page |-> page_images[idx], outcome |-> outcome])
              /\ IF r.raised
                 THEN Abort(r.exc)
                 ELSE /\ all_text' =
                            IF NonBlank(r.value)
                            THEN Append(all_text, Block(idx, SourceOf(endpoint), Strip(r.value)))
                            ELSE all_text
                      /\ idx' = idx + 1
                      /\ UNCHANGED <<pc, response, pages_data, detailed_results>>
    /\ UNCHANGED <<endpoint, file, path, pymupdf_text, page_images>>

\* doc.close(); return "\n\n".join(all_text)
PlainReturn ==
    /\ pc = "ocr"
    /\ endpoint \in PlainEndpoints
    /\ idx > Len(page_images)
    /\ response' = [status |-> 200, body |-> Join(<<"\n", "\n">>, all_text)]
    /\ pc' = "done"
    /\ UNCHANGED <<endpoint, file, path, pymupdf_text, page_images, idx, all_text,
                   pages_data, detailed_results, calls>>

\* one iteration of the loop of /extract-text-json/
JsonPage ==
    /\ pc = "ocr"
    /\ endpoint = "extract_text_json"
    /\ idx <= Len(page_images)
    /\ \E outcome \in ProviderOutcomes :
          LET r == textract_extract_text_with_structure(outcome)
          IN  /\ calls' = Append(calls, [page |-> page_images[idx], outcome |-> outcome])
              /\ IF r.raised
                 THEN Abort(r.exc)
                 ELSE IF ~NonBlank(r.value.raw_text)
                 THEN /\ idx' = idx + 1
                      /\ UNCHANGED <<pc, response, all_text, pages_data, detailed_results>>
                 ELSE IF PageEntry(idx, r.value).average_confidence.den = 0
                 THEN Abort(OtherException("float division by zero"))
                 ELSE /\ pages_data' = Append(pages_data, PageEntry(idx, r.value))
                      /\ all_text' = Append(all_text, Strip(r.value.raw_text))
                      /\ idx' = idx + 1
                      /\ UNCHANGED <<pc, response, detailed_results>>
    /\ UNCHANGED <<endpoint, file, path, pymupdf_text, page_images>>

JsonReturn ==
    /\ pc = "ocr"
    /\ endpoint = "extract_text_json"
    /\ idx > Len(page_images)
    /\ response' = [status |-> 200,
                    body |-> [extracted_text |-> Join(<<"\n", "\n">>, all_text),
                              pages |-> pages_data,
                              total_pages |-> Len(pages_data),
                              extraction_method |-> "AWS Textract OCR",
                              text_blocks |-> all_text]]
    /\ pc' = "done"
    /\ UNCHANGED <<endpoint, file, path, pymupdf_text, page_images, idx, all_text,
                   pages_data, detailed_results, calls>>

\* one iteration of the loop of /extract-text-detailed/
DetailedPage ==
    /\ pc = "ocr"
    /\ endpoint = "extract_text_detailed"
    /\ idx <= Len(page_images)
    /\ \E outcome \in ProviderOutcomes :
          LET r == textract_extract_text_with_structure(outcome)
          IN  /\ calls' = Append(calls, [page |-> page_images[idx], outcome |-> outcome])
              /\ IF r.raised
                 THEN Abort(r.exc)
                 ELSE /\ detailed_results' =
                            Append(detailed_results,
                                   [page_number |-> idx,
                                    raw_text |-> r.value.raw_text,
                                    lines |-> r.value.lines,
                                    words |-> r.value.words])
                      /\ idx' = idx + 1
                      /\ UNCHANGED <<pc, response, all_text, pages_data>>
    /\ UNCHANGED <<endpoint, file, path, pymupdf_text, page_images>>

DetailedReturn ==
    /\ pc = "ocr"
    /\ endpoint = "extract_text_detailed"
    /\ idx > Len(page_images)
    /\ response' = [status |-> 200,
                    body |-> [pages |-> detailed_results,
                              total_pages |-> Len(detailed_results),
                              extraction_method |-> "AWS Textract with structure analysis"]]
    /\ pc' = "done"
    /\ UNCHANGED <<endpoint, file, path, pymupdf_text, page_images, idx, all_text,
                   pages_data, detailed_results, calls>>

\* /health-textract/: one call with the test image (image 0), always a 200 answer
health_textract ==
    /\ pc = "idle"
    /\ endpoint' = "health_textract"
    /\ UNCHANGED <<file, idx, pymupdf_text, all_text, pages_data, detailed_results>>
    /\ \E outcome \in ProviderOutcomes :
          /\ calls' = <<[page |-> 0, outcome |-> outcome]>>
          /\ response' = [status |-> 200, body |-> HealthStatus(outcome)]
    /\ pc' = "done"
    /\ path' = "none"
    /\ page_images' = <<>>

Next ==
    \/ extract_text
    \/ extract_text_with_fallback
    \/ extract_text_from_drive
    \/ extract_text_json
    \/ extract_text_detailed
    \/ health_textract
    \/ PlainPage
    \/ PlainReturn
    \/ JsonPage
    \/ JsonReturn
    \/ DetailedPage
    \/ DetailedReturn

Spec == Init /\ [][Next]_vars

----------------------------------------------------------------------------
(* Vocabulary of the properties *)

Done == pc = "done"
Succeeded == Done /\ response.status = 200
Accepted == pc # "idle" /\ file.is_pdf /\ file.openable
NumPages == Len(file.pages)

\* the last provider call failed
LastCallFailed == calls # <<>> /\ calls[Len(calls)].outcome.kind # "ok"
LastOutcome == calls[Len(calls)].outcome

RECURSIVE NewlineJoined(_, _)
\* the first k parts, each separated from the next by one line end
NewlineJoined(parts, k) ==
    IF k = 0 THEN <<>>
    ELSE IF k = 1 THEN parts[1]
    ELSE NewlineJoined(parts, k - 1) \o <<"\n">> \o parts[k]

\* positions of the provider fragments of one kind, and the k-th of them
Positions(Blocks, type) == {j \in 1..Len(Blocks) : Blocks[j].BlockType = type}
Nth(S, k) == CHOOSE x \in S : Cardinality({y \in S : y < x}) = k - 1

\* the text the provider's lines give page n: its LINE fragments, newline-joined
OcrText(n) ==
    LET B == calls[n].outcome.Blocks
        P == Positions(B, "LINE")
    IN  NewlineJoined([k \in 1..Cardinality(P) |-> B[Nth(P, k)].Text], Cardinality(P))

Trimmed(s) ==
    IF \A i \in 1..Len(s) : s[i] \in {" ", "\n", "\t"} THEN <<>>
    ELSE SubSeq(s,
                CHOOSE i \in 1..Len(s) : s[i] \notin {" ", "\n", "\t"}
                                         /\ \A j \in 1..(i - 1) : s[j] \in {" ", "\n", "\t"},
                CHOOSE i \in 1..Len(s) : s[i] \notin {" ", "\n", "\t"}
                                         /\ \A j \in (i + 1)..Len(s) : s[j] \in {" ", "\n", "\t"})

\* the resulting text of page n on the path taken
ResultText(n) ==
    IF path = "text" THEN Trimmed(file.pages[n]) ELSE Trimmed(OcrText(n))

\* pages whose resulting text is not blank
KeptPages == {n \in 1..NumPages : ResultText(n) # <<>>}

\* a block is a label line followed by text
HasLabel(b) == \E j \in 1..Len(b) : b[j] = "\n"
LabelEnd(b) == CHOOSE j \in 1..Len(b) : b[j] = "\n" /\ \A i \in 1..(j - 1) : b[i] # "\n"
LabelOf(b) == SubSeq(b, 1, LabelEnd(b) - 1)
TextOf(b) == SubSeq(b, LabelEnd(b) + 1, Len(b))

SourceLabel == CASE endpoint # "extract_text_with_fallback" -> " ---"
                 [] path = "text" -> " (Text Layer) ---"
                 [] OTHER -> " (OCR) ---"

\* the label names page n and the source of the path taken
Names(b, n) ==
    /\ HasLabel(b)
    /\ LabelOf(b) = <<"--- Page ">> \o Decimal(n) \o <<SourceLabel>>

PlainSucceeded == Succeeded /\ endpoint \in PlainEndpoints

----------------------------------------------------------------------------
(* C1 *)

\* C1 as stated: the text-layer path is taken exactly when some page's
\* embedded text is longer than 100 characters.
C1_AsStated ==
    (endpoint = "extract_text_with_fallback" /\ Accepted) =>
        (path = "text" <=> \E n \in 1..NumPages : Len(file.pages[n]) > 100)

\* C1, amended: for every accepted document the strategy makes one
\* document-level choice; it takes the text-layer path for every page exactly
\* when at least one page's embedded text, trimmed of leading and trailing
\* whitespace, is longer than 100 characters, and the OCR path for every page
\* otherwise; when every page's text layer is empty it takes the OCR path.
C1_Decision ==
    (endpoint = "extract_text_with_fallback" /\ Accepted) =>
        /\ path \in {"text", "ocr"}
        /\ path = "text" <=> \E n \in 1..NumPages : Len(Trimmed(file.pages[n])) > 100
        /\ (\A n \in 1..NumPages : file.pages[n] = <<>>) => path = "ocr"
        /\ \A k \in 1..Len(all_text) :
              /\ HasLabel(all_text[k])
              /\ LabelOf(all_text[k])[Len(LabelOf(all_text[k]))] = SourceLabel

\* a document with one substantial page and one blank page went the text-layer way
C1_Witness ==
    /\ endpoint = "extract_text_with_fallback" /\ Succeeded
    /\ path = "text"
    /\ NumPages = 2
    /\ \E n \in 1..NumPages : file.pages[n] = <<>>

----------------------------------------------------------------------------
(* C2 *)

\* C2: in the plain-text output, the page number in every page-boundary label
\* is the 1-based index, within the document, of the page whose text follows.
C2_LabelIsPageIndex ==
    PlainSucceeded =>
        \A k \in 1..Len(all_text) :
            \E n \in 1..NumPages :
                /\ Names(all_text[k], n)
                /\ TextOf(all_text[k]) = ResultText(n)
                /\ Cardinality({m \in KeptPages : m < n}) = k - 1

----------------------------------------------------------------------------
(* C3 *)

\* C3: on every path, a page whose resulting text is blank contributes no
\* block: every block is a label followed by non-blank text, there are as
\* many blocks as pages with non-blank resulting text, and the blocks carry
\* those pages' texts in page order under ascending page numbers.
C3_NoBlankBlocks ==
    PlainSucceeded =>
        /\ Len(all_text) = Cardinality(KeptPages)
        /\ \A k \in 1..Len(all_text) :
              /\ HasLabel(all_text[k])
              /\ Trimmed(TextOf(all_text[k])) # <<>>
              /\ TextOf(all_text[k]) = ResultText(Nth(KeptPages, k))
              /\ \E n \in 1..NumPages : Names(all_text[k], n)
        /\ \A k \in 1..(Len(all_text) - 1) :
              \E m, n \in 1..NumPages :
                  m < n /\ Names(all_text[k], m) /\ Names(all_text[k + 1], n)
        /\ response.body = NewlineJoined([k \in 1..Len(all_text) |->
                                             IF k = 1 THEN all_text[k]
                                             ELSE <<"\n">> \o all_text[k]],
                                         Len(all_text))

\* blank pages were dropped on the OCR path and other pages kept
C3_Witness ==
    /\ PlainSucceeded
    /\ path = "ocr"
    /\ NumPages = 2
    /\ Cardinality(KeptPages) = 1
    /\ \E n \in 1..NumPages : calls[n].outcome.Blocks # <<>> /\ n \notin KeptPages

----------------------------------------------------------------------------
(* C4 *)

PageEndpoints == PlainEndpoints \cup {"extract_text_json", "extract_text_detailed"}

\* what the gateway used by the endpoint raised for the last call
GatewayError ==
    IF endpoint \in PlainEndpoints
    THEN textract_extract_text(LastOutcome).exc
    ELSE textract_extract_text_with_structure(LastOutcome).exc

\* C4: when the gateway fails on a page, the request ends at once with the
\* gateway's own status (401 for rejected credentials, 403 for denied
\* permission) and a body that holds the gateway's detail and no page text;
\* the handler's wrapper leaves the status alone.
C4_GatewayErrorSurfaces ==
    (endpoint \in PageEndpoints /\ LastCallFailed) =>
        /\ Done
        /\ response.status = GatewayError.status_code
        /\ response.status \in {400, 401, 403, 500}
        /\ response.body = [detail |-> GatewayError.detail]
        /\ (LastOutcome.code = "UnrecognizedClientException") => response.status = 401
        /\ (LastOutcome.code = "AccessDeniedException") => response.status = 403

\* credentials were rejected on page 2 after page 1 had given text
C4_Witness ==
    /\ endpoint = "extract_text" /\ Done
    /\ Len(calls) = 2
    /\ all_text # <<>>
    /\ LastOutcome.code = "UnrecognizedClientException"
    /\ response.status = 401

----------------------------------------------------------------------------
(* C5 *)

\* C5: both gateway entry points map a provider failure to the same status:
\* rejected credentials 401, denied permission 403, invalid parameters 400,
\* any other provider error code 500 with the code in the message, any other
\* failure 500.
C5_SameStatusMapping ==
    (endpoint \in PageEndpoints /\ LastCallFailed /\ Done) =>
        IF LastOutcome.kind = "ClientError"
        THEN CASE LastOutcome.code = "UnrecognizedClientException" -> response.status = 401
               [] LastOutcome.code = "AccessDeniedException" -> response.status = 403
               [] LastOutcome.code = "InvalidParameterException" -> response.status = 400
               [] OTHER -> /\ response.status = 500
                           /\ \E j \in 1..Len(response.body.detail) :
                                 response.body.detail[j] = LastOutcome.code
        ELSE response.status = 500

----------------------------------------------------------------------------
(* C6 *)

\* C6: when the strategy takes the text-layer path, no page is rasterized,
\* no provider call is made and the output holds text-layer blocks only; the
\* document whose page 1 has 150 characters of text and whose page 2 has none
\* gives exactly one block, "Page 1 (Text Layer)", and no provider call.
C6_TextPathSkipsOcr ==
    /\ path = "text" =>
          /\ calls = <<>>
          /\ page_images = <<>>
          /\ Succeeded
          /\ \A k \in 1..Len(all_text) :
                /\ HasLabel(all_text[k])
                /\ LabelOf(all_text[k])[Len(LabelOf(all_text[k]))] = " (Text Layer) ---"
    /\ ( /\ endpoint = "extract_text_with_fallback" /\ Accepted
         /\ file.pages = <<[i \in 1..150 |-> "a"], <<>>>> ) =>
          /\ path = "text"
          /\ calls = <<>>
          /\ page_images = <<>>
          /\ response.body = <<"--- Page ", "1", " (Text Layer) ---", "\n">>
                             \o [i \in 1..150 |-> "a"]

\* the two-page document of the scenario was served
C6_Witness ==
    /\ endpoint = "extract_text_with_fallback" /\ Succeeded
    /\ path = "text"
    /\ file.pages = <<[i \in 1..150 |-> "a"], <<>>>>
    /\ Len(all_text) = 1

----------------------------------------------------------------------------
(* C7 *)

\* C7: on every OCR path the pages go to the provider one at a time in
\* ascending page order, once each: call i submits page i, only the last
\* call can have failed, a failure ends the request, and a successful
\* request over N pages made exactly N calls.
C7_OneCallPerPageInOrder ==
    (endpoint \in PageEndpoints /\ path = "ocr") =>
        /\ Len(calls) <= NumPages
        /\ \A i \in 1..Len(calls) : calls[i].page = i
        /\ \A i \in 1..(Len(calls) - 1) : calls[i].outcome.kind = "ok"
        /\ LastCallFailed => Done /\ response.status # 200
        /\ Succeeded => Len(calls) = NumPages
        /\ (Done /\ ~Succeeded) => LastCallFailed

\* a two-page request failed on page 1 and made no call for page 2
C7_Witness ==
    /\ endpoint = "extract_text" /\ Done
    /\ NumPages = 2
    /\ Len(calls) = 1
    /\ LastCallFailed

----------------------------------------------------------------------------
(* C8 *)

\* the provider fragments of one kind, in the provider's order
FragmentsOfKind(Blocks, type, got) ==
    LET P == Positions(Blocks, type)
    IN  /\ Len(got) = Cardinality(P)
        /\ \A k \in 1..Len(got) :
              /\ got[k].text = Blocks[Nth(P, k)].Text
              /\ got[k].confidence = Blocks[Nth(P, k)].Confidence
              /\ got[k].geometry = Blocks[Nth(P, k)].Geometry

\* C8: every PageResult has as Lines exactly the provider's fragments of
\* kind line and as Words exactly those of kind word, in the provider's
\* order, and its raw_text is the newline-joined text of its Lines; the
\* plain-text gateway returns the same newline-joined text.
C8_PageResultInvariant ==
    /\ endpoint = "extract_text_detailed" =>
          \A i \in 1..Len(detailed_results) :
              LET r == detailed_results[i]
                  B == calls[i].outcome.Blocks
              IN  /\ FragmentsOfKind(B, "LINE", r.lines)
                  /\ FragmentsOfKind(B, "WORD", r.words)
                  /\ r.raw_text = NewlineJoined([k \in 1..Len(r.lines) |-> r.lines[k].text],
                                                Len(r.lines))
                  /\ r.raw_text = OcrText(i)
    /\ endpoint = "extract_text_json" =>
          \A i \in 1..Len(pages_data) :
              LET e == pages_data[i]
                  B == calls[e.page_number].outcome.Blocks
              IN  /\ e.lines_count = Cardinality(Positions(B, "LINE"))
                  /\ e.words_count = Cardinality(Positions(B, "WORD"))
                  /\ e.text = Trimmed(OcrText(e.page_number))
    /\ (endpoint \in PlainEndpoints /\ path = "ocr") =>
          \A k \in 1..Len(all_text) :
              \E n \in 1..Len(calls) : TextOf(all_text[k]) = Trimmed(OcrText(n))

\* a page with two lines, words and a fragment of another kind was structured
C8_Witness ==
    /\ endpoint = "extract_text_detailed" /\ Succeeded
    /\ \E i \in 1..Len(detailed_results) :
          /\ Len(detailed_results[i].lines) = 2
          /\ Len(detailed_results[i].words) = 3
          /\ Len(calls[i].outcome.Blocks) = 6

----------------------------------------------------------------------------
(* C9 *)

\* C9: the mean confidence is never a division by zero: it is 0 for a page
\* with no lines, every emitted page entry has at least one line and a mean
\* whose divisor is its line count, and a request whose provider calls all
\* succeeded ends with a result.
C9_NoDivisionByZero ==
    /\ AverageConfidence(<<>>) = [num |-> 0, den |-> 1]
    /\ \A i \in 1..Len(pages_data) :
          /\ pages_data[i].lines_count >= 1
          /\ pages_data[i].average_confidence.den = pages_data[i].lines_count
    /\ (endpoint = "extract_text_json" /\ Done /\ Accepted /\ ~LastCallFailed) =>
          /\ response.status = 200
          /\ response.body.pages = pages_data

\* a page without lines was processed and a page with lines was emitted
C9_Witness ==
    /\ endpoint = "extract_text_json" /\ Succeeded
    /\ Len(pages_data) = 1
    /\ pages_data[1].lines_count = 3
    /\ \E n \in 1..Len(calls) : Positions(calls[n].outcome.Blocks, "LINE") = {}

----------------------------------------------------------------------------
(* C10 *)

\* C10: the health check makes exactly one provider call and always answers
\* 200 with a status value: healthy when the call succeeds or the provider
\* returns an invalid-parameter or unsupported-document error, error otherwise.
C10_HealthStatus ==
    (endpoint = "health_textract" /\ pc # "idle") =>
        /\ Done
        /\ Len(calls) = 1
        /\ response.status = 200
        /\ response.body.status \in {"healthy", "error"}
        /\ response.body.status = "healthy" <=>
              \/ LastOutcome.kind = "ok"
              \/ LastOutcome.code \in {"InvalidParameterException",
                                       "UnsupportedDocumentException"}

\* the provider answered the test image with an unsupported-document error
C10_Witness ==
    /\ endpoint = "health_textract" /\ Done
    /\ LastOutcome.code = "UnsupportedDocumentException"
    /\ response.body.status = "healthy"

====
